---- MODULE Spec2Model ----
(***************************************************************************)
(* Model of the oxidepm daemon's supervisor (crates/oxidepmd): the process *)
(* map, the app registry, the request handlers and the supervision,        *)
(* health and metrics tasks.                                               *)
(*                                                                         *)
(* Requests are handled one at a time (the daemon holds the handler lock   *)
(* for the whole request), but every await inside a handler is a point     *)
(* where the background tasks and the child processes take steps.  A       *)
(* handler is therefore run as a list of pending steps, "todo": each       *)
(* action executes the step at its head (one critical section of the       *)
(* process-map lock together with the non-suspending code around it) and   *)
(* replaces it by the steps that follow in the source.                     *)
(***************************************************************************)
EXTENDS Integers, Sequences, FiniteSets, Bags, TLC

\* ---------------------------------------------------------------- bounds
MaxReq == 2          \* client requests handled in one run
MaxPid == 4          \* child processes spawned in one run
MaxProbes == 2       \* probes of one wait_for_healthy before its deadline
MaxRunnerFail == 1   \* runner prepare/start failures in one run
MaxBoots == 1         \* daemon restarts on an emptied registry in one run
MaxBgEvents == 1     \* children exiting on their own, health-task probes and
                     \* limit-triggered stops in one run, taken together

\* ------------------------------------------------------ optional values
None == -1           \* Option::None of an integer-valued Option
Alive == -2          \* OS state of a child that has not exited

\* ------------------------------------------------------------- AppStatus
AppStatus == {"Starting", "Running", "Stopping", "Stopped", "Errored", "Building"}

is_running(status) == status \in {"Running", "Starting", "Building"}

\* ------------------------------------------------------------- names
\* A name is the sequence of its '-'-separated parts: "web-0-reload" is
\* <<"web", "0", "reload">>, so format!("{}-{}", n, i) appends a part.
InstanceName(name, i) == Append(name, ToString(i))
ReloadName(name) == Append(name, "reload")

\* ------------------------------------------------------------- AppSpec
\* The fields of AppSpec the supervisor branches on.  health_check is the
\* retries of the configured check, max_memory_mb / max_uptime_secs say
\* whether the limit is configured.
DEFAULT_MAX_RESTARTS == 15

NoSpec == [id |-> 0, name |-> <<>>, instances |-> 1, instance_id |-> None,
           health_check |-> None, max_memory_mb |-> FALSE,
           max_uptime_secs |-> FALSE, auto_restart |-> TRUE,
           max_restarts |-> DEFAULT_MAX_RESTARTS, tags |-> {}]

\* Specs a client sends with Start.
ClientSpecs ==
    { [NoSpec EXCEPT !.name = <<"a">>, !.health_check = 1, !.max_memory_mb = TRUE,
                     !.max_uptime_secs = TRUE, !.tags = {<<"t">>}],
      [NoSpec EXCEPT !.name = <<"web">>, !.instances = 2, !.health_check = 1] }

for_instance(spec, i) ==
    [spec EXCEPT !.instance_id = i, !.name = InstanceName(spec.name, i)]

\* The process-map lock when no task holds it.
Free == "free"

\* ------------------------------------------------------------- ports
\* u16
U16 == 65536

\* Option<u16>; Overflow is the panic of "attempt to add with overflow".
NonePort == [tag |-> "none", val |-> 0]
SomePort(p) == [tag |-> "some", val |-> p]
Overflow == [tag |-> "panic", val |-> 0]

\* A spec without port_range and port, instance 0.
NoPorts == [port_range |-> FALSE, start |-> 0, end |-> 0,
            port |-> NonePort, instance_index |-> 0]

\* Nothing computed yet.
NoPort == [done |-> FALSE, port |-> NonePort, spec_port |-> NonePort,
           env_port |-> <<>>]

\* ------------------------------------------------------------- app names
\* A name as the string of its characters.  "a", "Z" and "0" stand for the
\* lower-case letters, the upper-case letters and the digits.
Chars == {"a", "Z", "0", "_", "-", "/", "."}

\* No spec has arrived.
NoName == [source |-> "none", name |-> <<>>]

\* Nothing was done with the name.
NoRow == [done |-> FALSE, rejected |-> FALSE, row |-> FALSE, log |-> <<>>]

\* ------------------------------------------------------------- log writer
\* LogWriter::new on a path without a file: the configuration, the size
\* the writer counts, the size of the live file, the indices of the rotated
\* files, the bytes written so far.
Writer(max_size_bytes, max_files) ==
    [max_size_bytes |-> max_size_bytes, max_files |-> max_files,
     current_size |-> 0, live |-> 0, rotated |-> {}, written |-> 0]

\* No writer is exercised.
NoWriter == Writer(0, 0)

\* ------------------------------------------------------------- state
VARIABLES
    registry,    \* apps table: id -> row
    nextId,      \* AUTOINCREMENT counter of the apps table
    procs,       \* Supervisor.processes: id -> SupervisedProcess
    osproc,      \* the children spawned so far: pid -> Alive or exit code
    tasks,       \* bag of live supervision and health tasks
    metrics,     \* the metrics collector task and its local sets
    todo,        \* pending steps of the request being handled
    ret,         \* value returned by the supervisor call that just ended
    cur,         \* the request being handled (selector resolved to ids)
    resp,        \* the response sent for the last finished request
    emitted,     \* notifications and hooks issued by the last step
    reqs,        \* requests accepted so far
    runnerFails, \* runner failures so far
    bgEvents,    \* exits, health-task probes and limit-triggered stops so far
    saved,       \* saved.json: whether it exists and the specs it holds
    boots,       \* daemon restarts so far
    lock,        \* holder of the process-map lock
    pin,         \* calculate_instance_port: the spec's ports, the instance
    pout,        \* calculate_instance_port, for_instance: what they gave
    nin,         \* a spec that arrives with a name of any characters
    nout,        \* what the supervisor did with that name
    logw         \* a LogWriter, its live file and the rotated files

portVars == <<pin, pout>>
nameVars == <<nin, nout>>
logVars == <<logw>>

\* The state of the functions that are exercised on their own.
aside == <<portVars, nameVars, logVars>>

\* The state of the supervisor and of the request being handled.
supervisor == <<registry, nextId, procs, osproc, tasks, metrics, todo, ret,
                cur, resp, emitted, reqs, runnerFails, bgEvents, saved, boots,
                lock>>

vars == <<registry, nextId, procs, osproc, tasks, metrics, todo, ret, cur,
          resp, emitted, reqs, runnerFails, bgEvents, saved, boots,
          lock, aside>>

\* A guard that outlives its block: the task keeps the lock while it waits.
HeldAcross(holder) == holder

\* The guard of a block "{ let procs = processes.write(); ... }" is dropped
\* at the end of the block, before the next await.
Dropped(holder) == Free

\* One critical section on the process map: the lock is taken when free
\* and left as the end of the block leaves it.
WithLock(holder) ==
    /\ lock = Free
    /\ lock' = Dropped(holder)

\* ------------------------------------------------------------- helpers
RECURSIVE SortedSeq(_)
SortedSeq(S) ==
    IF S = {} THEN <<>>
    ELSE LET m == CHOOSE x \in S : \A y \in S : x <= y
         IN <<m>> \o SortedSeq(S \ {m})

Range(s) == {s[k] : k \in 1..Len(s)}

MapPut(f, k, v) == [x \in DOMAIN f \cup {k} |-> IF x = k THEN v ELSE f[x]]
MapDel(f, k) == [x \in DOMAIN f \ {k} |-> f[x]]

Ok(v) == [tag |-> "ok", val |-> v, err |-> ""]
Err(e) == [tag |-> "err", val |-> 0, err |-> e]
\* Result<bool>: Ok(true) is Ok(1), Ok(false) is Ok(0).

Step(op) == [op |-> op, id |-> 0, id2 |-> 0, i |-> 0, spec |-> NoSpec,
             ids |-> <<>>, e |-> ""]

Rest == Tail(todo)
At(op) == todo # <<>> /\ Head(todo).op = op
top == Head(todo)

\* AppsRepository::get_by_name
get_by_name(name) == {id \in DOMAIN registry : registry[id].name = name}

\* A SupervisedProcess built without keeping the child handle.
NewProcessNoHandle(spec, pid) ==
    [spec |-> spec, status |-> "Running", pid |-> pid, child |-> None,
     last_exit_code |-> None, healthy |-> TRUE,
     health_check_failures |-> 0, restart_count |-> 0,
     cluster_instance_ids |-> <<>>]

\* The SupervisedProcess start_single builds.
NewProcess(spec, pid) ==
    [spec |-> spec, status |-> "Running", pid |-> pid, child |-> pid,
     last_exit_code |-> None, healthy |-> TRUE,
     health_check_failures |-> 0, restart_count |-> 0,
     cluster_instance_ids |-> <<>>]

\* The parent aggregate start_cluster builds.
NewParent(spec, ids) ==
    [spec |-> spec, status |-> "Running", pid |-> None, child |-> None,
     last_exit_code |-> None, healthy |-> TRUE,
     health_check_failures |-> 0, restart_count |-> 0,
     cluster_instance_ids |-> ids]

\* A spawned task: its kind, the app id it was spawned for and its locals
\* (the health task's own HealthMonitor: retries and consecutive failures).
SupTask(id) ==
    [kind |-> "supervision", app |-> id, pc |-> "sleep", retries |-> 0, fails |-> 0]
HealthTask(id, retries) ==
    [kind |-> "health", app |-> id, pc |-> "sleep", retries |-> retries, fails |-> 0]

Event(kind, id, name) == [kind |-> kind, id |-> id, name |-> name]

IsParent(p) == p.cluster_instance_ids # <<>>

\* Selector
All == [type |-> "all", id |-> 0, name |-> <<>>, tag |-> <<>>]
ById(n) == [type |-> "id", id |-> n, name |-> <<>>, tag |-> <<>>]
ByName(s) == [type |-> "name", id |-> 0, name |-> s, tag |-> <<>>]
ByTag(t) == [type |-> "tag", id |-> 0, name |-> <<>>, tag |-> t]

SupervisorInit ==
    /\ registry = <<>>
    /\ nextId = 1
    /\ procs = <<>>
    /\ osproc = <<>>
    /\ tasks = EmptyBag
    /\ metrics = [pc |-> "tick", restart_needed |-> <<>>, pending_restarts |-> {},
                  memory_limit_notified |-> {}, app |-> 0, child |-> None,
                  observed |-> {}]
    /\ todo = <<>>
    /\ ret = Ok(0)
    /\ cur = [kind |-> "none", sent |-> All, selector |-> All, ids |-> <<>>,
              names |-> {}, live |-> {}, count |-> 0]
    /\ resp = [type |-> "none", count |-> 0, message |-> ""]
    /\ emitted = {}
    /\ reqs = 0
    /\ runnerFails = 0
    /\ bgEvents = 0
    /\ saved = [exists |-> FALSE, apps |-> <<>>]
    /\ boots = 0
    /\ lock = Free

PortIdle == pin = NoPorts /\ pout = NoPort
NameIdle == nin = NoName /\ nout = NoRow
LogIdle == logw = NoWriter

Init ==
    /\ SupervisorInit
    /\ PortIdle
    /\ NameIdle
    /\ LogIdle

\* ------------------------------------------------------------- children

\* The child handles held outside the map: by a stop that waits for its
\* child, and by the metrics loop.
StopHeld == IF todo # <<>> /\ Head(todo).op = "stop_wait" THEN {Head(todo).id2} ELSE {}
MetricsHeld == IF metrics.child # None THEN {metrics.child} ELSE {}

\* A supervised child exits on its own (exit code 0).
ChildExit ==
    \E id \in DOMAIN procs :
        /\ bgEvents < MaxBgEvents
        /\ procs[id].child # None
        /\ osproc[procs[id].child] = Alive
        /\ osproc' = [osproc EXCEPT ![procs[id].child] = 0]
        /\ bgEvents' = bgEvents + 1
        /\ emitted' = {}
        /\ UNCHANGED <<registry, nextId, procs, tasks, metrics, todo, ret, cur,
                       resp, reqs, runnerFails,
                   saved, boots, lock, aside>>

\* A child that was sent SIGTERM exits before the deadline: its handler
\* exits with a code, or the signal ends it (ExitStatus::code() is None).
ChildTerminated ==
    \E pid \in StopHeld \cup MetricsHeld, code \in {0, None} :
        /\ osproc[pid] = Alive
        /\ osproc' = [osproc EXCEPT ![pid] = code]
        /\ emitted' = {}
        /\ UNCHANGED <<registry, nextId, procs, tasks, metrics, todo, ret, cur,
                       resp, reqs, runnerFails, bgEvents,
                   saved, boots, lock, aside>>

\* ------------------------------------------------------------- start

\* AppsRepository::insert: the row keeps the persisted columns.
Row(spec) == [name |-> spec.name, auto_restart |-> spec.auto_restart]

\* Supervisor::start
Start ==
    /\ At("start")
    /\ LET spec == top.spec
           existing == get_by_name(spec.name)
           cluster(s) == s.instances > 1 /\ s.instance_id = None
           next(s) == IF cluster(s)
                      THEN [Step("start_cluster") EXCEPT !.spec = s]
                      ELSE [Step("start_single") EXCEPT !.spec = s]
       IN IF existing # {}
          THEN LET id == CHOOSE x \in existing : TRUE
               IN IF id \in DOMAIN procs /\ is_running(procs[id].status)
                  THEN /\ ret' = Err("AppAlreadyExists")
                       /\ todo' = Rest
                       /\ UNCHANGED <<registry, nextId>>
                  ELSE /\ todo' = <<next([spec EXCEPT !.id = id])>> \o Rest
                       /\ UNCHANGED <<registry, nextId, ret>>
          ELSE /\ registry' = MapPut(registry, nextId, Row(spec))
               /\ nextId' = nextId + 1
               /\ todo' = <<next([spec EXCEPT !.id = nextId])>> \o Rest
               /\ UNCHANGED ret
    /\ emitted' = {}
    /\ UNCHANGED <<procs, osproc, tasks, metrics, cur, resp, reqs, runnerFails,
                   bgEvents,
                   saved, boots, aside>>
    /\ WithLock("start")

\* Supervisor::start_single: the registry insert of a cluster instance,
\* runner.prepare and runner.start, the insert into the process map and
\* the spawning of the tasks.
StartSingle ==
    /\ At("start_single")
    /\ LET spec0 == top.spec
           insert == spec0.instance_id # None
           spec == IF insert THEN [spec0 EXCEPT !.id = nextId] ELSE spec0
           pid == Cardinality(DOMAIN osproc) + 1
       IN IF insert /\ get_by_name(spec0.name) # {}
          THEN \* UNIQUE(name) rejects the insert
               /\ ret' = Err("DbError")
               /\ UNCHANGED <<registry, nextId, procs, osproc, tasks,
                              runnerFails>>
               /\ emitted' = {}
          ELSE /\ registry' = IF insert THEN MapPut(registry, nextId, Row(spec))
                              ELSE registry
               /\ nextId' = IF insert THEN nextId + 1 ELSE nextId
               /\ \/ \* prepare reports failure, or spawn fails
                     /\ runnerFails < MaxRunnerFail
                     /\ runnerFails' = runnerFails + 1
                     /\ ret' = Err("BuildFailed")
                     /\ emitted' = {}
                     /\ UNCHANGED <<procs, osproc, tasks>>
                  \/ /\ pid <= MaxPid
                     /\ osproc' = MapPut(osproc, pid, Alive)
                     /\ procs' = MapPut(procs, spec.id, NewProcess(spec, pid))
                     /\ tasks' = tasks (+) SetToBag({SupTask(spec.id)})
                               (+) (IF spec.health_check # None
                                    THEN SetToBag({HealthTask(spec.id, spec.health_check)})
                                    ELSE EmptyBag)
                     /\ emitted' = {Event("Started", spec.id, spec.name),
                                    Event("on_start", spec.id, spec.name)}
                     /\ ret' = Ok(spec.id)
                     /\ UNCHANGED runnerFails
    /\ todo' = Rest
    /\ UNCHANGED <<metrics, cur, resp, reqs, bgEvents,
                   saved, boots, aside>>
    /\ WithLock("start_single")

\* ------------------------------------------------------------- stop

\* A stop that goes on for any entry of the map, whatever its status.
StoppableAny(id) == id \in DOMAIN procs

\* Supervisor::stop goes on for an entry whose status is_running, and
\* returns Ok(false) otherwise.
Stoppable(id) == id \in DOMAIN procs /\ is_running(procs[id].status)

\* Supervisor::stop, first critical section: Stopping, the child handle is
\* taken out of the map.  Without a handle the function goes on to the
\* notification at once.
StopBegin ==
    /\ At("stop")
    /\ LET id == top.id
       IN IF ~Stoppable(id)
          THEN /\ ret' = Ok(0)
               /\ todo' = Rest
               /\ emitted' = {}
               /\ UNCHANGED procs
          ELSE /\ procs' = [procs EXCEPT ![id].status = "Stopping", ![id].child = None]
               /\ IF procs[id].child = None
                  THEN /\ ret' = Ok(1)
                       /\ todo' = Rest
                       /\ emitted' = {Event("Stopped", id, procs[id].spec.name),
                                      Event("on_stop", id, procs[id].spec.name)}
                  ELSE /\ todo' = <<[Step("stop_wait") EXCEPT !.id = id,
                                        !.id2 = procs[id].child,
                                        !.spec = procs[id].spec]>> \o Rest
                       /\ emitted' = {}
                       /\ UNCHANGED ret
    /\ UNCHANGED <<registry, nextId, osproc, tasks, metrics, cur, resp, reqs,
                   runnerFails, bgEvents,
                   saved, boots, aside>>
    /\ WithLock("stop")

\* The write after the wait: status Stopped, pid and started_at cleared.
StopWrite(id, exit_code) ==
    IF id \in DOMAIN procs
    THEN [procs EXCEPT ![id].last_exit_code = exit_code,
                       ![id].status = "Stopped",
                       ![id].pid = None]
    ELSE procs

StopEnd(id, name) ==
    /\ emitted' = {Event("Stopped", id, name), Event("on_stop", id, name)}
    /\ ret' = Ok(1)
    /\ todo' = Rest
    /\ UNCHANGED <<registry, nextId, tasks, metrics, cur, resp, reqs,
                   runnerFails, bgEvents,
                   saved, boots, aside>>
    /\ WithLock("stop")

\* A timeout branch that gives up on the child without killing it.
TimeoutGiveUp(o, pid) == o

\* The kill_timeout_ms deadline passes: child.kill().
TimeoutKill(o, pid) == [o EXCEPT ![pid] = None]

\* Supervisor::stop, child.wait() returns within kill_timeout_ms.
StopWaitExited ==
    /\ At("stop_wait")
    /\ osproc[top.id2] # Alive
    /\ procs' = StopWrite(top.id, osproc[top.id2])
    /\ UNCHANGED osproc
    /\ StopEnd(top.id, top.spec.name)

\* Supervisor::stop, the deadline passes: SIGKILL, exit code None.
StopWaitTimeout ==
    /\ At("stop_wait")
    /\ osproc[top.id2] = Alive
    /\ osproc' = TimeoutKill(osproc, top.id2)
    /\ procs' = StopWrite(top.id, None)
    /\ StopEnd(top.id, top.spec.name)

\* ------------------------------------------------------------- tasks

\* "break": the task leaves its loop and is gone.
TaskExit(t) == tasks (-) SetToBag({t})

\* A supervision task finds its process removed from the map and ends.
SupervisionExit ==
    \E t \in BagToSet(tasks) :
        /\ t.kind = "supervision"
        /\ t.app \notin DOMAIN procs
        /\ tasks' = TaskExit(t)
        /\ emitted' = {}
        /\ UNCHANGED <<registry, nextId, procs, osproc, metrics, todo, ret,
                       cur, resp, reqs, runnerFails, bgEvents,
                   saved, boots, aside>>
        /\ WithLock("supervision")

\* A supervision task that takes every exit for an expected one.
after_exit_stopped(status) == "Stopped"

\* The status the supervision task writes for an exit it observed.
after_exit(status) == IF status = "Stopping" THEN "Stopped" ELSE "Errored"

\* A supervision task's tick finds that the child has exited.  (A tick
\* that finds it running only refreshes uptime_secs.)
SupervisionTick ==
    \E t \in BagToSet(tasks) :
        /\ t.kind = "supervision"
        /\ t.app \in DOMAIN procs
        /\ LET id == t.app
               p == procs[id]
           IN /\ p.child # None
              /\ osproc[p.child] # Alive
              /\ procs' = [procs EXCEPT
                    ![id].last_exit_code = osproc[p.child],
                    ![id].pid = None,
                    ![id].child = None,
                    ![id].status = after_exit(p.status)]
              /\ emitted' = IF p.status = "Stopping" THEN {}
                            ELSE {Event("Crashed", id, p.spec.name),
                                  Event("on_crash", id, p.spec.name)}
        /\ UNCHANGED <<registry, nextId, osproc, tasks, metrics, todo, ret,
                       cur, resp, reqs, runnerFails, bgEvents,
                   saved, boots, aside>>
        /\ WithLock("supervision")

\* ------------------------------------------------------------- cluster start

\* A failure branch that leaves the started instances alone.
StopNone(ids) == <<>>

\* start_cluster, an instance failed: "for started_id in &instance_ids"
\* stops the instances started before it.
StopStarted(ids) == [k \in 1..Len(ids) |-> [Step("stop") EXCEPT !.id = ids[k]]]

\* Supervisor::start_cluster: one pass of "for i in 0..instance_count",
\* taken when the start_single of instance i-1 has returned, and the
\* insert of the parent aggregate after the last one.
StartCluster ==
    /\ At("start_cluster")
    /\ LET spec == top.spec
           i == top.i
       IN IF i > 0 /\ ret.tag = "err"
          THEN \* stop the instances already started, return the error
               /\ todo' = StopStarted(top.ids)
                          \o <<[Step("return_err") EXCEPT !.e = ret.err,
                                   !.spec = spec, !.i = i - 1,
                                   !.ids = top.ids]>> \o Rest
               /\ UNCHANGED <<procs, ret>>
          ELSE LET ids == IF i > 0 THEN Append(top.ids, ret.val) ELSE top.ids
               IN IF i < spec.instances
                  THEN /\ todo' = <<[Step("start_single") EXCEPT
                                        !.spec = for_instance(spec, i)],
                                    [top EXCEPT !.i = i + 1, !.ids = ids]>> \o Rest
                       /\ UNCHANGED <<procs, ret>>
                  ELSE /\ procs' = MapPut(procs, spec.id, NewParent(spec, ids))
                       /\ ret' = Ok(spec.id)
                       /\ todo' = Rest
    /\ emitted' = {}
    /\ UNCHANGED <<registry, nextId, osproc, tasks, metrics, cur, resp, reqs,
                   runnerFails, bgEvents,
                   saved, boots, aside>>
    /\ WithLock("start_cluster")

\* "return Err(e)" after the steps that precede it.
ReturnErr ==
    /\ At("return_err")
    /\ ret' = Err(top.e)
    /\ todo' = Rest
    /\ emitted' = {}
    /\ UNCHANGED <<registry, nextId, procs, osproc, tasks, metrics, cur, resp,
                   reqs, runnerFails, bgEvents,
                   saved, boots, lock, aside>>

\* ------------------------------------------------------------- restart, delete

\* Supervisor::restart: the spec is read, on_restart runs, then stop and
\* start follow.
Restart ==
    /\ At("restart")
    /\ LET id == top.id
       IN IF id \in DOMAIN procs
          THEN /\ emitted' = {Event("on_restart", id, procs[id].spec.name)}
               /\ todo' = <<[Step("stop") EXCEPT !.id = id],
                            [Step("start") EXCEPT !.spec = procs[id].spec],
                            Step("restart_end")>> \o Rest
               /\ UNCHANGED ret
          ELSE /\ emitted' = {}
               /\ ret' = Ok(0)
               /\ todo' = Rest
    /\ UNCHANGED <<registry, nextId, procs, osproc, tasks, metrics, cur, resp,
                   reqs, runnerFails, bgEvents,
                   saved, boots, aside>>
    /\ WithLock("restart")

\* "self.start(spec).await?; Ok(true)"
RestartEnd ==
    /\ At("restart_end")
    /\ ret' = IF ret.tag = "err" THEN ret ELSE Ok(1)
    /\ todo' = Rest
    /\ emitted' = {}
    /\ UNCHANGED <<registry, nextId, procs, osproc, tasks, metrics, cur, resp,
                   reqs, runnerFails, bgEvents,
                   saved, boots, lock, aside>>

\* Supervisor::delete is stop(id) followed by the removal.
DeleteSteps(id) ==
    <<[Step("stop") EXCEPT !.id = id], [Step("delete_remove") EXCEPT !.id = id]>>

\* Supervisor::delete after its stop: the entry leaves the map, the row
\* leaves the registry.
DeleteRemove ==
    /\ At("delete_remove")
    /\ procs' = MapDel(procs, top.id)
    /\ registry' = MapDel(registry, top.id)
    /\ ret' = Ok(1)
    /\ todo' = Rest
    /\ emitted' = {}
    /\ UNCHANGED <<nextId, osproc, tasks, metrics, cur, resp, reqs,
                   runnerFails, bgEvents,
                   saved, boots, aside>>
    /\ WithLock("delete")

\* ------------------------------------------------------------- reload

\* Supervisor::reload, and the start of the replacement in reload_single.
Reload ==
    /\ At("reload")
    /\ LET id == top.id
       IN IF id \notin DOMAIN procs
          THEN /\ ret' = Ok(0)
               /\ todo' = Rest
          ELSE LET spec == procs[id].spec
               IN /\ UNCHANGED ret
                  /\ IF procs[id].cluster_instance_ids # <<>>
                     THEN todo' = <<[Step("reload_cluster") EXCEPT
                                        !.id = id, !.spec = spec,
                                        !.ids = procs[id].cluster_instance_ids]>>
                                  \o Rest
                     ELSE todo' = <<[Step("start_single") EXCEPT !.spec =
                                        [spec EXCEPT !.name = ReloadName(spec.name),
                                                     !.id = 0]],
                                    [Step("reload_started") EXCEPT
                                        !.id = id, !.spec = spec]>> \o Rest
    /\ emitted' = {}
    /\ UNCHANGED <<registry, nextId, procs, osproc, tasks, metrics, cur, resp,
                   reqs, runnerFails, bgEvents,
                   saved, boots, aside>>
    /\ WithLock("reload")

\* A reload that goes on to stop the old instance whatever the wait says.
AfterWaitIgnored(healthy, new_id, rollback, proceed) == proceed

\* What reload does once the replacement new_id has had its health wait:
\* roll the replacement back, or go on to stop the old instance.
AfterWait(healthy, new_id, rollback, proceed) ==
    IF healthy THEN proceed
    ELSE <<[Step("stop") EXCEPT !.id = new_id]>> \o DeleteSteps(new_id) \o rollback

\* reload_single after start_single returned.
ReloadStarted ==
    /\ At("reload_started")
    /\ IF ret.tag = "err"
       THEN todo' = Rest
       ELSE IF top.spec.health_check # None
            THEN todo' = <<[Step("wait_for_healthy") EXCEPT
                               !.id = ret.val, !.i = MaxProbes],
                           [Step("reload_waited") EXCEPT
                               !.id = top.id, !.id2 = ret.val, !.spec = top.spec]>>
                         \o Rest
            ELSE todo' = <<[Step("stop") EXCEPT !.id = top.id],
                           [Step("reload_finish") EXCEPT
                               !.id = top.id, !.id2 = ret.val, !.spec = top.spec]>>
                         \o Rest
    /\ emitted' = {}
    /\ UNCHANGED <<registry, nextId, procs, osproc, tasks, metrics, ret, cur,
                   resp, reqs, runnerFails, bgEvents,
                   saved, boots, lock, aside>>

\* Supervisor::wait_for_healthy: one probe and the write of its result;
\* the deadline passes after MaxProbes failed probes.
WaitForHealthy ==
    /\ At("wait_for_healthy")
    /\ LET id == top.id
       IN IF id \notin DOMAIN procs
          THEN /\ ret' = Ok(0)
               /\ todo' = Rest
               /\ UNCHANGED procs
          ELSE IF procs[id].spec.health_check = None
          THEN /\ ret' = Ok(1)
               /\ todo' = Rest
               /\ UNCHANGED procs
          ELSE \E healthy \in BOOLEAN :
               /\ procs' = [procs EXCEPT ![id].healthy = healthy]
               /\ IF healthy
                  THEN ret' = Ok(1) /\ todo' = Rest
                  ELSE IF top.i > 1
                  THEN ret' = ret /\ todo' = <<[top EXCEPT !.i = @ - 1]>> \o Rest
                  ELSE ret' = Ok(0) /\ todo' = Rest
    /\ emitted' = {}
    /\ UNCHANGED <<registry, nextId, osproc, tasks, metrics, cur, resp, reqs,
                   runnerFails, bgEvents,
                   saved, boots, aside>>
    /\ WithLock("wait_for_healthy")

\* reload_single after wait_for_healthy returned.
ReloadWaited ==
    /\ At("reload_waited")
    /\ todo' = AfterWait(ret.val = 1, top.id2,
                   <<[Step("return_err") EXCEPT !.e = "HealthCheckFailed",
                         !.id = top.id, !.id2 = top.id2]>>,
                   <<[Step("stop") EXCEPT !.id = top.id],
                     [Step("reload_finish") EXCEPT
                         !.id = top.id, !.id2 = top.id2, !.spec = top.spec]>>)
               \o Rest
    /\ emitted' = {}
    /\ UNCHANGED <<registry, nextId, procs, osproc, tasks, metrics, ret, cur,
                   resp, reqs, runnerFails, bgEvents,
                   saved, boots, lock, aside>>

\* reload_single after the old instance was stopped: the new entry takes
\* the original name, the old registry row is deleted.
ReloadFinish ==
    /\ At("reload_finish")
    /\ procs' = IF top.id2 \in DOMAIN procs
                THEN [procs EXCEPT ![top.id2].spec.name = top.spec.name]
                ELSE procs
    /\ registry' = MapDel(registry, top.id)
    /\ ret' = Ok(1)
    /\ todo' = Rest
    /\ emitted' = {}
    /\ UNCHANGED <<nextId, osproc, tasks, metrics, cur, resp, reqs,
                   runnerFails, bgEvents,
                   saved, boots, aside>>
    /\ WithLock("reload_single")

\* ------------------------------------------------------------- rolling reload

\* The next pass of the loop over the parent's instance ids.
NextPosition(step) == [step EXCEPT !.op = "reload_cluster", !.i = @ + 1, !.id2 = 0]

\* Supervisor::reload_cluster: head of one pass of the loop for position i
\* (top.i, counted from 0).
ReloadCluster ==
    /\ At("reload_cluster")
    /\ LET i == top.i
       IN IF i >= Len(top.ids)
          THEN ret' = Ok(1) /\ todo' = Rest
          ELSE /\ UNCHANGED ret
               /\ IF top.ids[i + 1] \notin DOMAIN procs
                  THEN todo' = <<NextPosition(top)>> \o Rest
                  ELSE todo' = <<[Step("start_single") EXCEPT !.spec =
                                    [for_instance(top.spec, i) EXCEPT
                                        !.name = ReloadName(InstanceName(top.spec.name, i)),
                                        !.id = 0]],
                                 [top EXCEPT !.op = "reload_cluster_started"]>>
                               \o Rest
    /\ emitted' = {}
    /\ UNCHANGED <<registry, nextId, procs, osproc, tasks, metrics, cur, resp,
                   reqs, runnerFails, bgEvents,
                   saved, boots, aside>>
    /\ WithLock("reload_cluster")

\* The steps that replace the old child of a position by new_id.
ReplaceOld(step, new_id) ==
    LET old == step.ids[step.i + 1]
    IN <<[Step("stop") EXCEPT !.id = old]>> \o DeleteSteps(old)
       \o <<[step EXCEPT !.op = "reload_cluster_patch", !.id2 = new_id]>>

\* reload_cluster after start_single returned for position i.
ReloadClusterStarted ==
    /\ At("reload_cluster_started")
    /\ IF ret.tag = "err"
       THEN todo' = <<NextPosition(top)>> \o Rest
       ELSE IF top.spec.health_check # None
            THEN todo' = <<[Step("wait_for_healthy") EXCEPT
                               !.id = ret.val, !.i = MaxProbes],
                           [top EXCEPT !.op = "reload_cluster_waited",
                                       !.id2 = ret.val]>> \o Rest
            ELSE todo' = ReplaceOld(top, ret.val) \o Rest
    /\ emitted' = {}
    /\ UNCHANGED <<registry, nextId, procs, osproc, tasks, metrics, ret, cur,
                   resp, reqs, runnerFails, bgEvents,
                   saved, boots, lock, aside>>

\* reload_cluster after wait_for_healthy returned for position i.
ReloadClusterWaited ==
    /\ At("reload_cluster_waited")
    /\ todo' = AfterWait(ret.val = 1, top.id2,
                         <<[top EXCEPT !.op = "reload_cluster_continue"]>>,
                         ReplaceOld(top, top.id2)) \o Rest
    /\ emitted' = {}
    /\ UNCHANGED <<registry, nextId, procs, osproc, tasks, metrics, ret, cur,
                   resp, reqs, runnerFails, bgEvents,
                   saved, boots, lock, aside>>

\* reload_cluster: "continue" once the failed replacement has been stopped
\* and deleted.
ReloadClusterContinue ==
    /\ At("reload_cluster_continue")
    /\ todo' = <<NextPosition(top)>> \o Rest
    /\ emitted' = {}
    /\ UNCHANGED <<registry, nextId, procs, osproc, tasks, metrics, ret, cur,
                   resp, reqs, runnerFails, bgEvents,
                   saved, boots, lock, aside>>

\* The parent's list after position i was replaced.
PatchIds(ids, old, new_id) ==
    IF old \in Range(ids)
    THEN LET pos == CHOOSE k \in 1..Len(ids) :
                        ids[k] = old /\ \A m \in 1..(k - 1) : ids[m] # old
         IN [ids EXCEPT ![pos] = new_id]
    ELSE ids

\* reload_cluster: the new instance takes the instance name, the parent's
\* cluster_instance_ids gets the new id at the position of the old one.
ReloadClusterPatch ==
    /\ At("reload_cluster_patch")
    /\ LET new_id == top.id2
           old == top.ids[top.i + 1]
           renamed == IF new_id \in DOMAIN procs
                      THEN [procs EXCEPT ![new_id].spec.name =
                                InstanceName(top.spec.name, top.i)]
                      ELSE procs
       IN procs' = IF top.id \in DOMAIN renamed
                   THEN [renamed EXCEPT ![top.id].cluster_instance_ids =
                            PatchIds(@, old, new_id)]
                   ELSE renamed
    /\ todo' = <<NextPosition(top)>> \o Rest
    /\ emitted' = {}
    /\ UNCHANGED <<registry, nextId, osproc, tasks, metrics, ret, cur, resp,
                   reqs, runnerFails, bgEvents,
                   saved, boots, aside>>
    /\ WithLock("reload_cluster")

\* ------------------------------------------------------------- health task

\* The health task wakes up: it ends when its process is gone or not
\* running, otherwise it starts a probe (outside the lock).
HealthWake ==
    \E t \in BagToSet(tasks) :
        /\ t.kind = "health"
        /\ t.pc = "sleep"
        /\ IF t.app \in DOMAIN procs /\ is_running(procs[t.app].status)
           THEN /\ bgEvents < MaxBgEvents
                /\ bgEvents' = bgEvents + 1
                /\ tasks' = (tasks (-) SetToBag({t}))
                            (+) SetToBag({[t EXCEPT !.pc = "probe"]})
           ELSE /\ tasks' = TaskExit(t)
                /\ UNCHANGED bgEvents
        /\ emitted' = {}
        /\ UNCHANGED <<registry, nextId, procs, osproc, metrics, todo, ret,
                       cur, resp, reqs, runnerFails,
                   saved, boots, aside>>
        /\ WithLock("health")

\* A monitor that counts the failures and never resets the count.
check_no_reset(consecutive_failures, healthy) ==
    IF healthy THEN consecutive_failures ELSE consecutive_failures + 1

\* HealthMonitor::check: consecutive_failures after a probe.
check(consecutive_failures, healthy) ==
    IF healthy THEN 0 ELSE consecutive_failures + 1

\* The write of a failed probe's result.
HealthFailed(p, is_unhealthy) ==
    [p EXCEPT !.healthy = FALSE,
              !.health_check_failures = @ + 1,
              !.status = IF is_unhealthy THEN "Errored" ELSE @]

\* The probe returns: HealthMonitor::check counts the failure, the result
\* is written to the process state, an unhealthy process becomes Errored.
HealthProbed ==
    \E t \in BagToSet(tasks), healthy \in BOOLEAN :
        /\ t.kind = "health"
        /\ t.pc = "probe"
        /\ LET fails == check(t.fails, healthy)
               is_unhealthy == fails >= t.retries
               id == t.app
           IN IF id \in DOMAIN procs
              THEN /\ tasks' = (tasks (-) SetToBag({t}))
                               (+) SetToBag({[t EXCEPT !.pc = "sleep", !.fails = fails]})
                   /\ procs' = [procs EXCEPT ![id] =
                        IF healthy
                        THEN [@ EXCEPT !.healthy = TRUE, !.health_check_failures = 0]
                        ELSE HealthFailed(@, is_unhealthy)]
                   /\ emitted' = IF ~healthy /\ is_unhealthy
                                 THEN {Event("HealthCheckFailed", id, procs[id].spec.name),
                                       Event("on_error", id, procs[id].spec.name)}
                                 ELSE {}
              ELSE /\ tasks' = TaskExit(t)
                   /\ emitted' = {}
                   /\ UNCHANGED procs
        /\ UNCHANGED <<registry, nextId, osproc, metrics, todo, ret, cur, resp,
                       reqs, runnerFails, bgEvents,
                   saved, boots, aside>>
        /\ WithLock("health")

\* ------------------------------------------------------------- metrics loop

\* The memory samples of one tick: below, at or above max_memory_mb.
MemSamples == {"below", "at", "above"}

\* The ids the tick looks at: running, not pending a restart.
Candidates == {id \in DOMAIN procs :
                  is_running(procs[id].status) /\ id \notin metrics.pending_restarts}

MemLimited == {id \in Candidates : procs[id].spec.max_memory_mb}
UptimeLimited == {id \in Candidates : procs[id].spec.max_uptime_secs}

\* What one tick pushes to restart_needed for one process: once for the
\* memory limit, once for the uptime limit.
Pushed(id, mem, up) ==
    (IF id \in DOMAIN mem /\ mem[id] = "above" THEN <<id>> ELSE <<>>)
    \o (IF id \in DOMAIN up /\ up[id] THEN <<id>> ELSE <<>>)

RECURSIVE PushedAll(_, _, _)
PushedAll(ids, mem, up) ==
    IF ids = <<>> THEN <<>>
    ELSE Pushed(Head(ids), mem, up) \o PushedAll(Tail(ids), mem, up)

\* spawn_metrics_collector, the critical section of a tick that checks the
\* limits.  The samples are the tick's input; the map is walked in id order.
MetricsTick ==
    /\ metrics.pc = "tick"
    /\ \E mem \in [MemLimited -> MemSamples], up \in [UptimeLimited -> BOOLEAN] :
        LET needed == PushedAll(SortedSeq(Candidates), mem, up)
            over == {id \in MemLimited : mem[id] = "above"}
            under == {id \in MemLimited : mem[id] = "below"}
            fresh == over \ metrics.memory_limit_notified
        IN /\ bgEvents + Cardinality(Range(needed)) <= MaxBgEvents
           /\ bgEvents' = bgEvents + Cardinality(Range(needed))
           /\ metrics' = [metrics EXCEPT
                 !.restart_needed = needed,
                 !.pending_restarts = @ \cup Range(needed),
                 !.memory_limit_notified = (@ \cup over) \ under,
                 !.observed = {procs[id].child : id \in Range(needed)} \ {None},
                 !.pc = IF needed = <<>> THEN "tick" ELSE "restart"]
           /\ emitted' = {Event("MemoryLimit", id, procs[id].spec.name) : id \in fresh}
    /\ UNCHANGED <<registry, nextId, procs, osproc, tasks, todo, ret, cur,
                   resp, reqs, runnerFails,
                   saved, boots, aside>>
    /\ WithLock("metrics")

\* The loop over restart_needed, first critical section: Stopping, the
\* child handle is taken; on_restart runs.
MetricsTake ==
    /\ metrics.pc = "restart"
    /\ IF metrics.restart_needed = <<>>
       THEN /\ metrics' = [metrics EXCEPT !.pc = "tick"]
            /\ emitted' = {}
            /\ UNCHANGED procs
       ELSE LET id == Head(metrics.restart_needed)
            IN IF id \in DOMAIN procs
               THEN /\ procs' = [procs EXCEPT ![id].status = "Stopping",
                                              ![id].child = None]
                    /\ metrics' = [metrics EXCEPT !.pc = "wait", !.app = id,
                                                  !.child = procs[id].child]
                    /\ emitted' = {Event("on_restart", id, procs[id].spec.name)}
               ELSE /\ metrics' = [metrics EXCEPT !.restart_needed = Tail(@)]
                    /\ emitted' = {}
                    /\ UNCHANGED procs
    /\ UNCHANGED <<registry, nextId, osproc, tasks, todo, ret, cur, resp, reqs,
                   runnerFails, bgEvents,
                   saved, boots, aside>>
    /\ WithLock("metrics")

LimitStoppedStillRunning(p) == p

\* The state the metrics loop writes once the child is gone.
LimitStopped(p) == [p EXCEPT !.status = "Stopped", !.pid = None]

\* The child's wait returns or the deadline passes and it is killed; then
\* the state is written: Stopped, pid cleared, the id leaves both sets.
MetricsStopped ==
    /\ metrics.pc = "wait"
    /\ LET id == metrics.app
       IN /\ osproc' = IF metrics.child # None /\ osproc[metrics.child] = Alive
                       THEN TimeoutKill(osproc, metrics.child) ELSE osproc
          /\ procs' = IF id \in DOMAIN procs
                      THEN [procs EXCEPT ![id] = LimitStopped(@)]
                      ELSE procs
          /\ metrics' = [metrics EXCEPT
                !.pc = "restart", !.app = 0, !.child = None,
                !.restart_needed = Tail(@),
                !.pending_restarts = @ \ {id},
                !.memory_limit_notified = @ \ {id}]
    /\ emitted' = {}
    /\ UNCHANGED <<registry, nextId, tasks, todo, ret, cur, resp, reqs,
                   runnerFails, bgEvents,
                   saved, boots, aside>>
    /\ WithLock("metrics")

\* ------------------------------------------------------------- handlers

\* row_to_app_spec: the AppSpec read back from a registry row; the fields
\* the apps table does not hold come back as their defaults.
row_to_app_spec(id) ==
    [NoSpec EXCEPT !.id = id, !.name = registry[id].name,
                   !.auto_restart = registry[id].auto_restart]

\* Supervisor::resolve_selector
resolve_selector(sel) ==
    CASE sel.type = "all" -> [ok |-> TRUE, ids |-> SortedSeq(DOMAIN registry)]
      [] sel.type = "tag" ->
            LET matching == {id \in DOMAIN registry :
                                sel.tag \in row_to_app_spec(id).tags}
            IN [ok |-> matching # {}, ids |-> SortedSeq(matching)]
      [] sel.type = "id" ->
            IF sel.id \in DOMAIN registry
            THEN [ok |-> TRUE, ids |-> <<sel.id>>]
            ELSE [ok |-> FALSE, ids |-> <<>>]
      [] sel.type = "name" ->
            IF get_by_name(sel.name) # {}
            THEN [ok |-> TRUE, ids |-> <<CHOOSE x \in get_by_name(sel.name) : TRUE>>]
            ELSE [ok |-> FALSE, ids |-> <<>>]

\* The children still alive that no entry of the process map holds and no
\* stop in progress is waiting for.
Orphans ==
    {pid \in DOMAIN osproc :
        /\ osproc[pid] = Alive
        /\ pid \notin StopHeld \cup MetricsHeld
        /\ \A id \in DOMAIN procs : procs[id].child # pid}

\* Supervisor::status: one AppInfo per registry row, its state taken from
\* the process map or, without an entry, a fresh RunState (Stopped).
status ==
    [id \in DOMAIN registry |->
        [name |-> registry[id].name,
         status |-> IF id \in DOMAIN procs THEN procs[id].status ELSE "Stopped"]]

\* Selectors a client sends.
SelNames == {<<"a">>, <<"web">>, <<"web", "0">>}
SelIds == {}
SelTags == {<<"t">>}
Selectors ==
    {All}
    \cup {ById(n) : n \in SelIds}
    \cup {ByName(n) : n \in SelNames}
    \cup {ByTag(t) : t \in SelTags}

\* serde_json::to_string of a Selector (derived Serialize, untagged): the
\* unit variant is null, a newtype variant is its content.
to_json(sel) ==
    CASE sel.type = "all" -> [kind |-> "null", n |-> 0, s |-> <<>>]
      [] sel.type = "id" -> [kind |-> "number", n |-> sel.id, s |-> <<>>]
      [] sel.type = "name" -> [kind |-> "string", n |-> 0, s |-> sel.name]
      [] sel.type = "tag" -> [kind |-> "string", n |-> 0, s |-> sel.tag]

\* serde_json::from_str of a Selector (derived Deserialize, untagged): the
\* first variant, in declaration order, that accepts the value.
from_json(j) ==
    IF j.kind = "null" THEN All
    ELSE IF j.kind = "number" THEN ById(j.n)
    ELSE ByName(j.s)

\* The handler's loop "for id in ids { match supervisor.op(id) ... }".
RECURSIVE ForEach(_, _)
ForEach(op, ids) ==
    IF ids = <<>> THEN <<>>
    ELSE (IF op = "delete" THEN DeleteSteps(Head(ids))
          ELSE <<[Step(op) EXCEPT !.id = Head(ids)]>>)
         \o <<[Step("count") EXCEPT !.id = Head(ids)]>> \o ForEach(op, Tail(ids))

Idle == todo = <<>> /\ reqs < MaxReq

Accept(kind, sent, sel, ids, names, steps) ==
    /\ resp' = [type |-> "none", count |-> 0, message |-> ""]
    /\ cur' = [kind |-> kind, sent |-> sent, selector |-> sel, ids |-> ids,
               names |-> names,
               live |-> {id \in Range(ids) \cap DOMAIN procs :
                            is_running(procs[id].status)},
               count |-> 0]
    /\ todo' = steps
    /\ reqs' = reqs + 1
    /\ emitted' = {}
    /\ UNCHANGED <<registry, nextId, procs, osproc, tasks, metrics, ret,
                   runnerFails, bgEvents,
                   saved, boots, lock, aside>>

\* RequestHandler::start
ReqStart ==
    \E spec \in ClientSpecs :
        /\ Idle
        /\ Accept("start", All, All, <<>>, {spec.name},
                  <<[Step("start") EXCEPT !.spec = spec], Step("respond")>>)

\* The names of the running single-instance apps among the addressed ids, as
\* the process map has them when the request arrives.
NamesOf(ids) ==
    {procs[id].spec.name :
        id \in {x \in Range(ids) \cap DOMAIN procs :
                   procs[x].status = "Running" /\ ~IsParent(procs[x])}}

\* RequestHandler::stop / restart / delete / reload
ReqSelected(kind) ==
    \E sent \in Selectors :
        /\ Idle
        /\ LET sel == from_json(to_json(sent))
               r == resolve_selector(sel)
           IN IF r.ok
              THEN Accept(kind, sent, sel, r.ids, NamesOf(r.ids),
                          ForEach(kind, r.ids) \o <<Step("respond")>>)
              ELSE Accept(kind, sent, sel, <<>>, {},
                          <<[Step("return_err") EXCEPT !.e = "AppNotFound"],
                            Step("respond")>>)

ReqStop == ReqSelected("stop")

\* Ok(true) => count += 1; Ok(false) and Err(e) leave the count.
Count ==
    /\ At("count")
    /\ cur' = IF ret.tag = "ok" /\ ret.val = 1
              THEN [cur EXCEPT !.count = @ + 1] ELSE cur
    /\ todo' = Rest
    /\ emitted' = {}
    /\ UNCHANGED <<registry, nextId, procs, osproc, tasks, metrics, ret, resp,
                   reqs, runnerFails, bgEvents,
                   saved, boots, lock, aside>>

ResponseType(kind) ==
    CASE kind = "stop" -> "stopped"
      [] kind = "save" -> "saved"
      [] kind = "restart" -> "restarted"
      [] kind = "delete" -> "deleted"
      [] kind = "reload" -> "reloaded"
      [] OTHER -> "started"

Respond ==
    /\ At("respond")
    /\ resp' = IF cur.kind = "kill"
               THEN [type |-> "ok", count |-> 0,
                     message |-> "Daemon shutting down"]
               ELSE IF cur.kind \in {"start", "save"}
               THEN IF ret.tag = "ok"
                    THEN [type |-> ResponseType(cur.kind), count |-> ret.val,
                          message |-> ""]
                    ELSE [type |-> "error", count |-> 0, message |-> ret.err]
               ELSE IF cur.ids = <<>> /\ ret.tag = "err"
                    THEN [type |-> "error", count |-> 0, message |-> ret.err]
                    ELSE [type |-> ResponseType(cur.kind), count |-> cur.count,
                          message |-> ""]
    /\ todo' = Rest
    /\ ret' = Ok(0)
    /\ emitted' = {}
    /\ UNCHANGED <<registry, nextId, procs, osproc, tasks, metrics, cur, reqs,
                   runnerFails, bgEvents,
                   saved, boots, lock, aside>>

ReqRestart == ReqSelected("restart")
ReqDelete == ReqSelected("delete")
ReqReload == ReqSelected("reload")

\* ------------------------------------------------------------- save, resurrect

\* RequestHandler::save
ReqSave ==
    /\ Idle
    /\ Accept("save", All, All, <<>>, {}, <<Step("save"), Step("respond")>>)

\* Daemon::handle_request, Request::Kill: "let _ = h.save().await", then the
\* Ok response; nothing else is done.
ReqKill ==
    /\ Idle
    /\ Accept("kill", All, All, <<>>, {}, <<Step("save"), Step("respond")>>)

\* The specs of the rows of the given ids, as get_all returns them.
RECURSIVE SpecsOf(_)
SpecsOf(ids) ==
    IF ids = <<>> THEN <<>>
    ELSE <<row_to_app_spec(Head(ids))>> \o SpecsOf(Tail(ids))

\* Supervisor::save: the specs get_all reads back from the registry are
\* written to saved.json.
Save ==
    /\ At("save")
    /\ saved' = [exists |-> TRUE, apps |-> SpecsOf(SortedSeq(DOMAIN registry))]
    /\ ret' = Ok(Len(saved'.apps))
    /\ todo' = Rest
    /\ emitted' = {}
    /\ UNCHANGED <<registry, nextId, procs, osproc, tasks, metrics, cur, resp,
                   reqs, runnerFails, bgEvents, boots, lock, aside>>

\* The loop of resurrect over the specs of saved.json.
RECURSIVE ResurrectSteps(_)
ResurrectSteps(apps) ==
    IF apps = <<>> THEN <<Step("resurrect_end")>>
    ELSE <<[Step("resurrect") EXCEPT !.spec = Head(apps)]>>
         \o ResurrectSteps(Tail(apps))

\* The daemon is started again on an emptied registry, saved.json kept:
\* Daemon::new builds a Supervisor with an empty process map and calls
\* resurrect.  The children of the previous daemon are not killed.
DaemonRestart ==
    /\ todo = <<>>
    /\ saved.exists
    /\ boots < MaxBoots
    /\ boots' = boots + 1
    /\ registry' = <<>>
    /\ nextId' = 1
    /\ procs' = <<>>
    /\ tasks' = EmptyBag
    /\ metrics' = [pc |-> "tick", restart_needed |-> <<>>, pending_restarts |-> {},
                   memory_limit_notified |-> {}, app |-> 0, child |-> None,
                  observed |-> {}]
    /\ cur' = [kind |-> "resurrect", sent |-> All, selector |-> All,
               ids |-> <<>>, names |-> {}, live |-> {}, count |-> 0]
    /\ resp' = [type |-> "none", count |-> 0, message |-> ""]
    /\ ret' = Ok(0)
    /\ todo' = ResurrectSteps(saved.apps)
    /\ emitted' = {}
    /\ UNCHANGED <<osproc, reqs, runnerFails, bgEvents, saved, aside>>
    /\ lock' = Free

\* The daemon is started again on the same home directory: the database
\* and saved.json are kept, Daemon::new builds a Supervisor with an empty
\* process map and calls resurrect.
DaemonRestartSameHome ==
    /\ todo = <<>>
    /\ saved.exists
    /\ boots < MaxBoots
    /\ boots' = boots + 1
    /\ procs' = <<>>
    /\ tasks' = EmptyBag
    /\ metrics' = [pc |-> "tick", restart_needed |-> <<>>, pending_restarts |-> {},
                   memory_limit_notified |-> {}, app |-> 0, child |-> None,
                  observed |-> {}]
    /\ cur' = [kind |-> "resurrect", sent |-> All, selector |-> All,
               ids |-> <<>>, names |-> {}, live |-> {}, count |-> 0]
    /\ resp' = [type |-> "none", count |-> 0, message |-> ""]
    /\ ret' = Ok(0)
    /\ todo' = ResurrectSteps(saved.apps)
    /\ emitted' = {}
    /\ UNCHANGED <<registry, nextId, osproc, reqs, runnerFails, bgEvents, saved,
                   aside>>
    /\ lock' = Free

\* Supervisor::resurrect, one spec: unless its name is in the registry it
\* is inserted and started.
Resurrect ==
    /\ At("resurrect")
    /\ IF get_by_name(top.spec.name) = {}
       THEN /\ registry' = MapPut(registry, nextId, Row(top.spec))
            /\ nextId' = nextId + 1
            /\ todo' = <<[Step("start") EXCEPT !.spec =
                              [top.spec EXCEPT !.id = nextId]],
                         Step("resurrect_count")>> \o Rest
       ELSE /\ todo' = Rest
            /\ UNCHANGED <<registry, nextId>>
    /\ emitted' = {}
    /\ UNCHANGED <<procs, osproc, tasks, metrics, ret, cur, resp, reqs,
                   runnerFails, bgEvents, saved, boots, lock, aside>>

\* Supervisor::resurrect: a failed start is logged, a started app counted.
ResurrectCount ==
    /\ At("resurrect_count")
    /\ cur' = IF ret.tag = "ok" THEN [cur EXCEPT !.count = @ + 1] ELSE cur
    /\ todo' = Rest
    /\ emitted' = {}
    /\ UNCHANGED <<registry, nextId, procs, osproc, tasks, metrics, ret, resp,
                   reqs, runnerFails, bgEvents, saved, boots, lock, aside>>

\* Supervisor::resurrect returns Ok(count).
ResurrectEnd ==
    /\ At("resurrect_end")
    /\ ret' = Ok(cur.count)
    /\ todo' = Rest
    /\ emitted' = {}
    /\ UNCHANGED <<registry, nextId, procs, osproc, tasks, metrics, cur, resp,
                   reqs, runnerFails, bgEvents, saved, boots, lock, aside>>

\* ------------------------------------------------------------- instance ports

\* The ports and instance indices the function is exercised with.
EdgePorts == {0, 1, 3000, U16 - 2, U16 - 1}
MaxInstance == 2

\* u16 + u16: the sum when it fits; beyond it the build decides, a panic
\* with overflow checks, the wrapped sum without.
AddU16(a, b) ==
    IF a + b < U16 THEN {SomePort(a + b)}
    ELSE {Overflow, SomePort((a + b) % U16)}

\* Supervisor::calculate_instance_port: the results the build can give.
calculate_instance_port(spec, instance_index) ==
    LET i == instance_index % U16
        base == IF spec.port.tag = "some" THEN AddU16(spec.port.val, i)
                ELSE {NonePort}
    IN IF spec.port_range
       THEN UNION {IF r.tag = "panic" THEN {r}
                   ELSE IF r.val <= spec.end THEN {r}
                   ELSE base : r \in AddU16(spec.start, i)}
       ELSE base

\* u16::to_string: the decimal digits.
RECURSIVE to_string(_)
to_string(n) ==
    IF n < 10 THEN <<n>> ELSE Append(to_string(n \div 10), n % 10)

\* The number a string of decimal digits denotes.
RECURSIVE parse(_)
parse(digits) ==
    IF digits = <<>> THEN 0
    ELSE 10 * parse(SubSeq(digits, 1, Len(digits) - 1)) + digits[Len(digits)]

\* start_cluster, one instance: the port is calculated and for_instance
\* puts it into the instance's port field and into PORT of its env.
InstancePort ==
    /\ ~pout.done
    /\ \E r \in calculate_instance_port(pin, pin.instance_index) :
          pout' = [done |-> TRUE, port |-> r,
                   spec_port |-> IF r.tag = "some" THEN r ELSE pin.port,
                   env_port |-> IF r.tag = "some" THEN to_string(r.val)
                                ELSE <<>>]
    /\ UNCHANGED <<supervisor, pin, nameVars, logVars>>

\* ------------------------------------------------------------- name validation

MaxNameLen == 2

\* The names a spec can arrive with.
Names == UNION {[1..n -> Chars] : n \in 0..MaxNameLen}

\* validate_app_name: non-empty and matching ^[a-zA-Z0-9_-]+$.
validate_app_name(name) ==
    /\ name # <<>>
    /\ \A k \in 1..Len(name) : name[k] \in {"a", "Z", "0", "_", "-"}

\* constants::log_path(app_name, "out"): logs_dir()/{app_name}-out.log
log_path(app_name) == <<"logs", "/">> \o app_name \o <<"-", "out", ".", "log">>

\* Supervisor::start and start_single for a name without a row: the spec
\* comes out of serde (a Start request, saved.json) or out of the config
\* file's conversion, none of which looks at the name; the row is inserted
\* and LogCapture::new opens the files at the paths derived from the name.
StartAnyName(name) ==
    [done |-> TRUE, rejected |-> FALSE, row |-> TRUE, log |-> log_path(name)]

StartNamed ==
    /\ ~nout.done
    /\ nin.source # "none"
    /\ nout' = StartAnyName(nin.name)
    /\ UNCHANGED <<supervisor, nin, portVars, logVars>>

\* ------------------------------------------------------------- log rotation

MaxSize == 3         \* largest max_size_bytes
MaxFiles == 4        \* largest max_files
MaxLine == 3         \* most bytes of one formatted line

\* LogWriter::rotate, "for i in (1..max_files).rev()" from i down to 1: .i
\* is removed when i + 1 >= max_files and renamed to .(i+1) otherwise.
RECURSIVE RotateFrom(_, _, _)
RotateFrom(i, files, max_files) ==
    IF i < 1 THEN files
    ELSE RotateFrom(i - 1,
                    IF i \in files
                    THEN IF i + 1 >= max_files THEN files \ {i}
                         ELSE (files \ {i}) \cup {i + 1}
                    ELSE files,
                    max_files)

\* LogWriter::rotate: the rotated files move up, the live file becomes .1,
\* a new empty live file is created.
rotate(w) ==
    [w EXCEPT !.rotated = RotateFrom(w.max_files - 1, @, w.max_files) \cup {1},
              !.live = 0,
              !.current_size = 0]

\* LogWriter::write_line with a formatted line of the given number of
\* bytes, while fewer than 10 * max_size_bytes bytes have been written.
WriteLine ==
    /\ logw.max_size_bytes > 0
    /\ \E bytes \in 1..MaxLine :
          /\ logw.written + bytes <= 10 * logw.max_size_bytes
          /\ LET w == [logw EXCEPT !.live = @ + bytes,
                                   !.current_size = @ + bytes,
                                   !.written = @ + bytes]
             IN logw' = IF w.current_size >= w.max_size_bytes
                        THEN rotate(w) ELSE w
    /\ UNCHANGED <<supervisor, portVars, nameVars>>

Next ==
    \/ ReqSave
    \/ ReqKill
    \/ Save
    \/ DaemonRestart
    \/ DaemonRestartSameHome
    \/ Resurrect
    \/ ResurrectCount
    \/ ResurrectEnd
    \/ ChildExit
    \/ ChildTerminated
    \/ ReqStart
    \/ ReqStop
    \/ ReqRestart
    \/ ReqDelete
    \/ ReqReload
    \/ Count
    \/ Respond
    \/ Start
    \/ StartSingle
    \/ StartCluster
    \/ ReturnErr
    \/ StopBegin
    \/ StopWaitExited
    \/ StopWaitTimeout
    \/ Restart
    \/ RestartEnd
    \/ DeleteRemove
    \/ Reload
    \/ ReloadStarted
    \/ WaitForHealthy
    \/ ReloadWaited
    \/ ReloadFinish
    \/ ReloadCluster
    \/ ReloadClusterStarted
    \/ ReloadClusterWaited
    \/ ReloadClusterContinue
    \/ ReloadClusterPatch
    \/ SupervisionTick
    \/ SupervisionExit
    \/ HealthWake
    \/ HealthProbed
    \/ MetricsTick
    \/ MetricsTake
    \/ MetricsStopped

Spec == Init /\ [][Next]_vars

\* The steps the runtime takes without a client or a child acting: those of
\* the request being handled and of the spawned tasks.
Scheduled ==
    \/ Save
    \/ Resurrect
    \/ ResurrectCount
    \/ ResurrectEnd
    \/ Count
    \/ Respond
    \/ Start
    \/ StartSingle
    \/ StartCluster
    \/ ReturnErr
    \/ StopBegin
    \/ StopWaitExited
    \/ StopWaitTimeout
    \/ Restart
    \/ RestartEnd
    \/ DeleteRemove
    \/ Reload
    \/ ReloadStarted
    \/ WaitForHealthy
    \/ ReloadWaited
    \/ ReloadFinish
    \/ ReloadCluster
    \/ ReloadClusterStarted
    \/ ReloadClusterWaited
    \/ ReloadClusterContinue
    \/ ReloadClusterPatch
    \/ SupervisionTick
    \/ SupervisionExit
    \/ MetricsTake
    \/ MetricsStopped

\* The tokio runtime runs every task that is ready.
FairSpec == Spec /\ WF_vars(Scheduled)

\* calculate_instance_port and for_instance on their own, for specs with
\* and without port_range and port.
PortInit ==
    /\ SupervisorInit
    /\ NameIdle
    /\ LogIdle
    /\ pin \in [port_range : BOOLEAN, start : EdgePorts, end : EdgePorts,
                 port : {NonePort} \cup {SomePort(p) : p \in EdgePorts},
                 instance_index : 0..MaxInstance]
    /\ pin.port_range \/ (pin.start = 0 /\ pin.end = 0)
    /\ pout = NoPort

PortSpec == PortInit /\ [][InstancePort]_vars

\* The start of a spec whose name is any string, from each of its sources.
NameInit ==
    /\ SupervisorInit
    /\ PortIdle
    /\ LogIdle
    /\ nin \in [source : {"start", "resurrect", "config"}, name : Names]
    /\ nout = NoRow

NameSpec == NameInit /\ [][StartNamed]_vars

MaxRetries == 3       \* largest retries of a health check
MaxHealthProbes == 6  \* probes of the health task in one run

\* The health task of one running app with a health check of the given
\* retries, as Start leaves it, probing up to MaxHealthProbes times.
HealthInit ==
    /\ PortIdle
    /\ NameIdle
    /\ LogIdle
    /\ \E retries \in 0..MaxRetries :
          LET spec == [NoSpec EXCEPT !.id = 1, !.name = <<"a">>,
                                     !.health_check = retries]
          IN /\ registry = <<Row(spec)>>
             /\ procs = <<NewProcess(spec, 1)>>
             /\ tasks = SetToBag({SupTask(1), HealthTask(1, retries)})
    /\ nextId = 2
    /\ osproc = <<Alive>>
    /\ metrics = [pc |-> "tick", restart_needed |-> <<>>, pending_restarts |-> {},
                  memory_limit_notified |-> {}, app |-> 0, child |-> None,
                  observed |-> {}]
    /\ todo = <<>>
    /\ ret = Ok(0)
    /\ cur = [kind |-> "start", sent |-> All, selector |-> All, ids |-> <<>>,
              names |-> {<<"a">>}, live |-> {}, count |-> 0]
    /\ resp = [type |-> "started", count |-> 1, message |-> ""]
    /\ emitted = {}
    /\ reqs = 1
    /\ runnerFails = 0
    /\ bgEvents = MaxBgEvents - MaxHealthProbes
    /\ saved = [exists |-> FALSE, apps |-> <<>>]
    /\ boots = 0
    /\ lock = Free

HealthNext ==
    \/ HealthWake
    \/ HealthProbed

HealthSpec == HealthInit /\ [][HealthNext]_vars

\* The supervisor as a Start of one of the client's specs leaves it: the
\* single app a under id 1, or the cluster web under id 1 with its two
\* instances under ids 2 and 3.
ReloadInit ==
    /\ PortIdle
    /\ NameIdle
    /\ LogIdle
    /\ \E spec0 \in ClientSpecs :
          LET spec == [spec0 EXCEPT !.id = 1]
              inst(i) == [for_instance(spec, i) EXCEPT !.id = 2 + i]
          IN /\ IF spec.instances > 1
                THEN /\ registry = <<Row(spec), Row(inst(0)), Row(inst(1))>>
                     /\ procs = <<NewParent(spec, <<2, 3>>),
                                  NewProcess(inst(0), 1), NewProcess(inst(1), 2)>>
                     /\ tasks = SetToBag({SupTask(2), SupTask(3),
                                          HealthTask(2, spec.health_check),
                                          HealthTask(3, spec.health_check)})
                     /\ osproc = <<Alive, Alive>>
                     /\ nextId = 4
                ELSE /\ registry = <<Row(spec)>>
                     /\ procs = <<NewProcess(spec, 1)>>
                     /\ tasks = SetToBag({SupTask(1), HealthTask(1, spec.health_check)})
                     /\ osproc = <<Alive>>
                     /\ nextId = 2
             /\ cur = [kind |-> "start", sent |-> All, selector |-> All,
                       ids |-> <<>>, names |-> {spec.name}, live |-> {},
                       count |-> 0]
    /\ metrics = [pc |-> "tick", restart_needed |-> <<>>, pending_restarts |-> {},
                  memory_limit_notified |-> {}, app |-> 0, child |-> None,
                  observed |-> {}]
    /\ todo = <<>>
    /\ ret = Ok(0)
    /\ resp = [type |-> "started", count |-> 1, message |-> ""]
    /\ emitted = {}
    /\ reqs = 0
    /\ runnerFails = 0
    /\ bgEvents = 0
    /\ saved = [exists |-> FALSE, apps |-> <<>>]
    /\ boots = 0
    /\ lock = Free

\* Reload requests and everything the supervisor and its tasks do for them.
ReloadNext ==
    \/ ReqReload
    \/ Count
    \/ Respond
    \/ ReturnErr
    \/ StartSingle
    \/ StopBegin
    \/ StopWaitExited
    \/ StopWaitTimeout
    \/ DeleteRemove
    \/ Reload
    \/ ReloadStarted
    \/ WaitForHealthy
    \/ ReloadWaited
    \/ ReloadFinish
    \/ ReloadCluster
    \/ ReloadClusterStarted
    \/ ReloadClusterWaited
    \/ ReloadClusterContinue
    \/ ReloadClusterPatch
    \/ ChildExit
    \/ ChildTerminated
    \/ SupervisionTick
    \/ SupervisionExit
    \/ HealthWake
    \/ HealthProbed

ReloadSpec == ReloadInit /\ [][ReloadNext]_vars

\* A log writer on a new file, for each rotation configuration.
LogInit ==
    /\ SupervisorInit
    /\ PortIdle
    /\ NameIdle
    /\ logw \in {Writer(k, m) : k \in 1..MaxSize, m \in 0..MaxFiles}

LogSpec == LogInit /\ [][WriteLine]_vars

\* ---------------------------------------------------------------- claims

C2_StoppedHoldsNoChild ==
    \A id \in DOMAIN procs :
        procs[id].status \in {"Stopped", "Errored"}
            => procs[id].pid = None /\ procs[id].child = None

\* The step in which stop(id), called for a Stop request, returns Ok(true).
StopReturnsTrue ==
    /\ todo # <<>>
    /\ top.op \in {"stop", "stop_wait"}
    /\ cur.kind = "stop"
    /\ todo' = Rest
    /\ ret' = Ok(1)

\* C3 as stated: once a Stop of a started app (single instance or cluster)
\* has returned, the app's entry has status Stopped and no pid.
C3_StopLeavesStopped ==
    [][StopReturnsTrue
         => /\ procs'[top.id].status = "Stopped"
            /\ procs'[top.id].pid = None]_vars

C5_ParentStopStopsChildren ==
    (At("respond") /\ cur.kind = "stop")
        => \A id \in Range(cur.ids) \cap DOMAIN procs :
              \A c \in Range(procs[id].cluster_instance_ids) \cap DOMAIN procs :
                  procs[c].status = "Stopped"

\* C6 as stated: between requests every cluster parent lists exactly
\* spec.instances ids, each a key of the process map whose entry has an
\* instance_id and the name "{parent name}-{instance_id}".
C6_ClusterIdsValid ==
    todo = <<>>
        => \A id \in DOMAIN procs :
              LET P == procs[id]
              IN IsParent(P)
                 => /\ Len(P.cluster_instance_ids) = P.spec.instances
                    /\ \A c \in Range(P.cluster_instance_ids) :
                          /\ c \in DOMAIN procs
                          /\ procs[c].spec.instance_id # None
                          /\ procs[c].spec.name
                               = InstanceName(P.spec.name, procs[c].spec.instance_id)

\* C7 as stated: once a Reload of a Running single-instance app named N has
\* been handled, a Status response has an entry named N.
C7_StatusKeepsName ==
    (todo = <<>> /\ cur.kind = "reload")
        => \A n \in cur.names : \E id \in DOMAIN status : status[id].name = n

\* C8 as stated: when reload of a Running single-instance app returns
\* HealthCheckFailed, the old instance is still Running with its pid and its
\* child handle, and the replacement has been stopped and removed from the
\* process map.
C8_FailedReloadKeepsOld ==
    (At("return_err") /\ top.e = "HealthCheckFailed")
        => /\ top.id \in DOMAIN procs
           /\ procs[top.id].status = "Running"
           /\ procs[top.id].pid # None
           /\ procs[top.id].child = procs[top.id].pid
           /\ top.id2 \notin DOMAIN procs
           /\ Orphans = {}

\* The frame of a rolling reload in progress, and the old child and the
\* replacement name of the position it is at.
ClusterOps ==
    {"reload_cluster", "reload_cluster_started", "reload_cluster_waited",
     "reload_cluster_continue", "reload_cluster_patch"}
InClusterReload == \E k \in 1..Len(todo) : todo[k].op \in ClusterOps
Frame == todo[CHOOSE k \in 1..Len(todo) : todo[k].op \in ClusterOps]
OldChild == Frame.ids[Frame.i + 1]
ReplacementNames ==
    {procs[id].spec.name : id \in {x \in DOMAIN procs :
        /\ Len(procs[x].spec.name) = 3
        /\ procs[x].spec.name[3] = "reload"}}

\* C9: a rolling reload handles the positions one at a time in increasing
\* index: only the position it is at has a replacement in the map, and none
\* is left when it moves on; it starts stopping the old child of a position
\* only when the replacement has been started and its health wait has
\* returned true; and until then, a failed health wait included, its steps
\* leave the old child's entry and the parent's list as they are.
C9_RollingReload ==
    [][/\ InClusterReload'
           => /\ ReplacementNames'
                   \subseteq {ReloadName(InstanceName(Frame'.spec.name, Frame'.i))}
              /\ Frame'.op = "reload_cluster" => ReplacementNames' = {}
       /\ (InClusterReload /\ InClusterReload')
           => Frame'.i \in {Frame.i, Frame.i + 1}
       /\ (InClusterReload /\ InClusterReload'
              /\ Frame.op # "reload_cluster_patch"
              /\ Frame'.op = "reload_cluster_patch")
           => \/ /\ At("reload_cluster_waited")
                 /\ ret = Ok(1)
                 /\ top.id2 \in DOMAIN procs
              \/ /\ At("reload_cluster_started")
                 /\ top.spec.health_check = None
                 /\ ret.tag = "ok"
                 /\ ret.val \in DOMAIN procs
       /\ (InClusterReload /\ todo' # todo /\ Frame.i < Len(Frame.ids)
              /\ Frame.op # "reload_cluster_patch" /\ OldChild \in DOMAIN procs)
           => /\ OldChild \in DOMAIN procs'
              /\ procs'[OldChild] = procs[OldChild]
              /\ procs'[Frame.id].cluster_instance_ids
                   = procs[Frame.id].cluster_instance_ids]_vars

\* A position's replacement failed its health wait and was rolled back: the
\* reload is about to move on, the old child still Running and listed.
C9_Witness ==
    /\ At("reload_cluster_continue")
    /\ procs[OldChild].status = "Running"
    /\ procs[OldChild].child # None
    /\ procs[top.id].cluster_instance_ids[top.i + 1] = OldChild
    /\ top.i = 1

\* The supervision task has seen the child of this entry exit on its own.
Crashed(id) ==
    /\ procs[id].status = "Errored"
    /\ procs[id].pid = None
    /\ procs[id].child = None

\* No request is being handled and no task has a step left to take.
Quiet ==
    /\ todo = <<>>
    /\ ~ENABLED (SupervisionTick \/ SupervisionExit \/ HealthWake \/ HealthProbed
                  \/ MetricsTake \/ MetricsStopped \/ ChildTerminated)

\* C10 as stated: a process with auto_restart whose child exited on its own
\* is started again while it has had fewer than max_restarts automatic
\* restarts, so the daemon never comes to rest with such a process Errored.
C10_CrashedIsRestarted ==
    Quiet
        => \A id \in DOMAIN procs :
              ~(/\ Crashed(id)
                /\ procs[id].spec.auto_restart
                /\ procs[id].restart_count < procs[id].spec.max_restarts)

\* C11 as stated: when the supervisor operation a request asked for returned
\* an error, the response sent to the client is Error{message} with that
\* error.
C11_ErrorIsReturned ==
    [][(At("respond") /\ ret.tag = "err" /\ todo' = Rest)
         => resp' = [type |-> "error", count |-> 0, message |-> ret.err]]_vars

\* The registered apps whose spec, as given to Start, carries tag t.
Tagged(t) ==
    {id \in DOMAIN registry \cap DOMAIN procs : t \in procs[id].spec.tags}

\* C12 as stated: ByTag(t) resolves to exactly the registered apps whose
\* spec tags contain t, and fails with AppNotFound only if there is none.
C12_ByTagResolves ==
    \A t \in SelTags :
        LET r == resolve_selector(ByTag(t))
        IN /\ Range(r.ids) = Tagged(t)
           /\ r.ok <=> Tagged(t) # {}

\* C13 as stated: the selector of a request, serialized to its JSON line
\* and deserialized by the daemon, equals the selector the client sent.
C13_SelectorRoundTrip ==
    cur.selector = cur.sent

\* The specs apps are started with: the client's, and those start_cluster
\* derives from them for the instances.
StartedSpecs ==
    ClientSpecs
    \cup {for_instance(c, i) : c \in {x \in ClientSpecs : x.instances > 1},
                               i \in 0..1}

\* C14 as stated: after Save, an emptied registry and process map, and
\* Resurrect, the registry holds exactly the names saved, and every app runs
\* with the spec it was started with, the id apart.
C14_ResurrectRestoresSpecs ==
    (todo = <<>> /\ cur.kind = "resurrect" /\ runnerFails = 0)
        => /\ {registry[id].name : id \in DOMAIN registry}
                = {saved.apps[k].name : k \in 1..Len(saved.apps)}
           /\ \A id \in DOMAIN registry \cap DOMAIN procs :
                  [procs[id].spec EXCEPT !.id = 0] \in StartedSpecs

C16_ScheduledOnce ==
    \A i, j \in 1..Len(metrics.restart_needed) :
        i # j => metrics.restart_needed[i] # metrics.restart_needed[j]

StopEvents == {e \in emitted' : e.kind \in {"Stopped", "on_stop"}}

\* C18: a Stop request that resolved, and only to apps that were not running
\* when it resolved (cur.live is empty), changes no process-map entry and no
\* registry row in any of its steps, emits no Stopped notification and no
\* on_stop hook, and answers Stopped{count: 0}.
C18_StopOfStoppedIsNoOp ==
    [][(cur.kind = "stop" /\ cur.live = {} /\ todo # <<>> /\ todo' # todo
            /\ ~At("return_err") /\ ~(At("respond") /\ ret.tag = "err"))
        => /\ procs' = procs
           /\ registry' = registry
           /\ StopEvents = {}
           /\ At("respond")
                => resp' = [type |-> "stopped", count |-> 0, message |-> ""]]_vars

\* A Stop addressed to apps none of which was running has been answered.
C18_Witness ==
    /\ cur.kind = "stop"
    /\ cur.ids # <<>>
    /\ cur.live = {}
    /\ todo = <<>>
    /\ resp.type = "stopped"

\* No two registry rows have the same name.
UniqueNames ==
    \A i, j \in DOMAIN registry : registry[i].name = registry[j].name => i = j

\* The registry ids of the name a Start request was sent with.
Existing == UNION {get_by_name(n) : n \in cur.names}

\* C19 as stated: Start of a name that has a registry row returns
\* AppAlreadyExists and changes neither registry nor process map if the
\* row's process is running; otherwise the start goes on under the id of the
\* row, the id returned is that id and the only other error is a failure of
\* the runner; the registry never holds two rows of one name.
C19_StartByName ==
    [][/\ UniqueNames'
       /\ (cur.kind = "start" /\ At("start") /\ todo' # todo /\ Existing # {})
            => \E id \in Existing :
                  IF id \in DOMAIN procs /\ is_running(procs[id].status)
                  THEN /\ ret' = Err("AppAlreadyExists")
                       /\ registry' = registry
                       /\ procs' = procs
                  ELSE /\ todo'[1].spec.id = id
                       /\ registry' = registry
       /\ (cur.kind = "start" /\ At("respond") /\ todo' # todo)
            => IF ret.tag = "ok"
               THEN Existing = {ret.val}
               ELSE ret.err \in {"AppAlreadyExists", "BuildFailed"}]_vars

\* The frame of a start_cluster that is about to return the error of an
\* instance: its spec, the index of the instance, the ids started before.
FailedCluster ==
    {k \in 1..Len(todo) : todo[k].op = "return_err" /\ todo[k].spec.instances > 1}

PlainPort ==
    IF pin.port_range /\ pin.start + pin.instance_index <= pin.end
    THEN SomePort(pin.start + pin.instance_index)
    ELSE IF pin.port.tag = "some"
         THEN SomePort(pin.port.val + pin.instance_index)
         ELSE NonePort

\* C21 as stated: the port assigned to instance i is start+i if port_range
\* is set and start+i <= end, otherwise port+i if port is set, otherwise
\* none, in plain integer arithmetic; an assigned port is in the instance's
\* port field and PORT of its env denotes it.
C21_InstancePort ==
    pout.done
        => /\ pout.port = PlainPort
           /\ pout.port.tag = "some"
                => /\ pout.spec_port = pout.port
                   /\ parse(pout.env_port) = pout.port.val

\* A Kill request has been answered.
Killed == cur.kind = "kill" /\ todo = <<>> /\ resp.type = "ok"

\* C22 as stated: once Kill has been answered the daemon eventually shuts
\* down, so that every supervision and health task has terminated.
C22_KillShutsDown == Killed ~> (tasks = EmptyBag)

\* C23 as stated: a row is inserted and log files are opened only for a
\* name validate_app_name accepts; a spec with any other name is rejected
\* before a log path is derived from it.
C23_NamesValidated ==
    nout.done
        => IF validate_app_name(nin.name)
           THEN nout.row /\ ~nout.rejected
           ELSE nout.rejected /\ ~nout.row /\ nout.log = <<>>

\* C24 as stated: with max_size_bytes = K, once 10*K bytes have been
\* written the live file has at most K bytes and exactly min(10, max_files)
\* rotated files exist.
C24_RotatedFiles ==
    logw.written = 10 * logw.max_size_bytes /\ logw.max_size_bytes > 0
        => /\ logw.live <= logw.max_size_bytes
           /\ Cardinality(logw.rotated)
                 = IF logw.max_files < 10 THEN logw.max_files ELSE 10

\* C25 as stated: when Stop of a Running process returns after the wait on
\* its child, the last_exit_code of the app is present, whether the child
\* exited after the termination signal or was killed at the deadline.
C25_ExitCodeRecorded ==
    [][(At("stop_wait") /\ todo' = Rest /\ top.id \in DOMAIN procs')
        => procs'[top.id].last_exit_code # None]_vars

\* C26: when a probe of the health task returns, the failure count of the
\* process is zero after a success and one more after a failure; the
\* process is set to Errored and HealthCheckFailed is emitted exactly when
\* the probe failed and that count has reached retries.
C26_ErroredAtRetries ==
    [][\A t \in BagToSet(tasks) :
          (t.kind = "health" /\ t.pc = "probe" /\ tasks' # tasks
                /\ t.app \in DOMAIN procs)
            => LET id == t.app
                   ok == procs'[id].healthy
                   n == IF ok THEN 0 ELSE procs[id].health_check_failures + 1
                   failed == Event("HealthCheckFailed", id, procs[id].spec.name)
               IN /\ procs'[id].health_check_failures = n
                  /\ procs'[id].status = "Errored" <=> (~ok /\ n >= t.retries)
                  /\ failed \in emitted' <=> (~ok /\ n >= t.retries)]_vars

\* A process became Errored at its third consecutive failed probe, which
\* was the last probe of the run: a success came before those failures.
C26_Witness ==
    /\ 1 \in DOMAIN procs
    /\ procs[1].status = "Errored"
    /\ procs[1].health_check_failures = 3
    /\ procs[1].spec.health_check = 3
    /\ bgEvents = MaxBgEvents
    /\ Event("HealthCheckFailed", 1, <<"a">>) \in emitted

\* C27: when Supervisor::restart of a process present in the map comes to
\* its end and the runner did not fail, it returns Ok(true), so that the
\* process is counted in Restarted{count}.
C27_RestartCounted ==
    [][(At("restart_end") /\ todo' = Rest
          /\ ~(ret.tag = "err" /\ ret.err = "BuildFailed"))
        => ret' = Ok(1)]_vars

\* C28: a step of a Start, Restart or Reload request leaves every live
\* child that a process-map entry holds in the hands of a process-map entry
\* or of a stop in progress.
C28_LiveChildKept ==
    [][\A id \in DOMAIN procs :
          (/\ cur.kind \in {"start", "restart", "reload"}
           /\ todo # <<>>
           /\ todo' # todo
           /\ procs[id].child # None
           /\ osproc[procs[id].child] = Alive)
            => LET pid == procs[id].child
               IN \/ osproc'[pid] # Alive
                  \/ pid \in StopHeld' \cup MetricsHeld'
                  \/ \E x \in DOMAIN procs' : procs'[x].child = pid]_vars

\* C29: when Supervisor::stop returns to a Stop request, or
\* Supervisor::delete removes the entry for a Delete request, the child the
\* entry of that app holds is not alive.
C29_StoppedChildDead ==
    [][(/\ todo # <<>>
        /\ todo' = Rest
        /\ top.id \in DOMAIN procs
        /\ \/ cur.kind = "stop" /\ top.op \in {"stop", "stop_wait"}
           \/ cur.kind = "delete" /\ top.op = "delete_remove")
        => LET held == IF top.op = "delete_remove" THEN procs[top.id].child
                       ELSE procs'[top.id].child
           IN held # None => osproc'[held] # Alive]_vars

\* C30: the health task sets Errored and emits HealthCheckFailed for a
\* process only when the status of that process is Running at the write.
C30_ErroredOnlyFromRunning ==
    [][\A id \in DOMAIN procs :
          Event("HealthCheckFailed", id, procs[id].spec.name) \in emitted'
            => procs[id].status = "Running"]_vars

\* C31: the child whose handle the metrics loop takes for a limit-triggered
\* stop is a child its tick observed over the limit, and the write that
\* ends the stop leaves alone an entry that holds a child started since.
C31_StopsObservedChild ==
    [][/\ (metrics.pc = "restart" /\ metrics'.pc = "wait" /\ metrics'.child # None)
            => metrics'.child \in metrics.observed
       /\ (/\ metrics.pc = "wait"
           /\ metrics'.pc = "restart"
           /\ metrics.app \in DOMAIN procs
           /\ procs[metrics.app].child # None)
            => procs'[metrics.app] = procs[metrics.app]]_vars

\* C32: once a Start, Restart, Reload or Delete request has been handled,
\* every process-map entry that holds a live child has a registry row with
\* its id and its name.
C32_LiveEntryHasRow ==
    (todo = <<>> /\ cur.kind \in {"start", "restart", "reload", "delete"})
        => \A id \in DOMAIN procs :
              (procs[id].child # None /\ osproc[procs[id].child] = Alive)
                => /\ id \in DOMAIN registry
                   /\ registry[id].name = procs[id].spec.name

\* C33: a supervision task that observes the exit of a child records
\* last_exit_code and clears pid and child handle in the same step; from
\* Stopping the status becomes Stopped and no Crashed is emitted, from
\* Running or Starting it becomes Errored and Crashed and on_crash are
\* issued; Crashed is issued only by a step that clears the handle of an
\* exited child, so once for an exit.
C33_ExitObserved ==
    [][\A id \in DOMAIN procs :
          LET p == procs[id]
              crashed == Event("Crashed", id, p.spec.name)
              on_crash == Event("on_crash", id, p.spec.name)
          IN /\ (/\ todo' = todo
                 /\ metrics' = metrics
                 /\ tasks' = tasks
                 /\ id \in DOMAIN procs'
                 /\ procs'[id] # p)
                  => LET q == procs'[id]
                     IN /\ p.child # None
                        /\ q.last_exit_code = osproc[p.child]
                        /\ q.pid = None
                        /\ q.child = None
                        /\ p.status = "Stopping"
                              => q.status = "Stopped" /\ crashed \notin emitted'
                        /\ p.status \in {"Running", "Starting"}
                              => /\ q.status = "Errored"
                                 /\ crashed \in emitted'
                                 /\ on_crash \in emitted'
             /\ crashed \in emitted'
                  => /\ p.child # None
                     /\ osproc[p.child] # Alive
                     /\ id \in DOMAIN procs'
                     /\ procs'[id].child = None]_vars

\* A supervision task has just observed the exit of a Running child.
C33_Witness ==
    \E id \in DOMAIN procs :
        /\ Event("Crashed", id, procs[id].spec.name) \in emitted
        /\ procs[id].status = "Errored"
        /\ procs[id].child = None
        /\ procs[id].pid = None
        /\ procs[id].last_exit_code = 0

\* C34: a process with auto_restart that the metrics loop is stopping for
\* a limit is Running again later.
C34_LimitStopRestarts ==
    \A id \in 1..MaxPid :
        (/\ metrics.pc = "wait"
         /\ metrics.app = id
         /\ id \in DOMAIN procs
         /\ procs[id].spec.auto_restart)
          ~> (id \in DOMAIN procs /\ procs[id].status = "Running")

\* C35: when the resurrect of a daemon started again after a Save comes to
\* its end, with no failure of the runner and no crash in the run, every
\* app of the snapshot is Running.
C35_ResurrectStartsAll ==
    [][(/\ At("resurrect_end")
        /\ todo' = Rest
        /\ runnerFails = 0
        /\ bgEvents = 0)
        => \A k \in 1..Len(saved.apps) :
              \E id \in DOMAIN procs :
                  /\ procs[id].spec.name = saved.apps[k].name
                  /\ procs[id].status = "Running"]_vars

\* C36: once a Start has been answered with BuildFailed, Status reports
\* the app as Errored.
C36_BuildFailedIsErrored ==
    (/\ todo = <<>>
     /\ cur.kind = "start"
     /\ resp.type = "error"
     /\ resp.message = "BuildFailed")
        => \A n \in cur.names :
              \E id \in DOMAIN status :
                  status[id].name = n /\ status[id].status = "Errored"

\* The number of live tasks of a kind spawned for a process id.
TasksOf(kind, id) ==
    LET of == {t \in BagToSet(tasks) : t.kind = kind /\ t.app = id}
    IN BagCardinality([t \in of |-> CopiesIn(t, tasks)])

\* C37: once a Start, Stop, Restart or Reload request has been handled,
\* each process id of the map has at most one live supervision task and at
\* most one live health task.
C37_OneTaskPerKind ==
    (todo = <<>> /\ cur.kind \in {"start", "stop", "restart", "reload"})
        => \A id \in DOMAIN procs :
              /\ TasksOf("supervision", id) <= 1
              /\ TasksOf("health", id) <= 1

\* C38: when the id of a task is not in the process map, no step emits an
\* event for that id, and the only change a step makes to the tasks of
\* that id is to end one of them, changing neither the registry nor the
\* process map: the first tick of such a task is its last.
C38_TasksEndAfterDelete ==
    [][\A t \in BagToSet(tasks) :
          t.app \notin DOMAIN procs
            => /\ \A e \in emitted' : e.id # t.app
               /\ \A u \in BagToSet(tasks') :
                     u.app = t.app => CopiesIn(u, tasks') <= CopiesIn(u, tasks)
               /\ CopiesIn(t, tasks') < CopiesIn(t, tasks)
                     => /\ procs' = procs
                        /\ registry' = registry
                        /\ osproc' = osproc
                        /\ emitted' = {}]_vars

\* C39: in a rolling reload of a cluster whose instances are all the
\* replacements an earlier rolling reload made (ids above those of the
\* first instances, 2 and 3), in a run in which the runner never failed,
\* the replacement of every instance is started, so that every instance
\* gets a replacement that can become healthy.
C39_ReloadRepeatable ==
    [][(/\ At("reload_cluster_started")
        /\ todo' # todo
        /\ runnerFails = 0
        /\ \A k \in 1..Len(top.ids) : top.ids[k] > 3)
        => ret.tag = "ok"]_vars

\* C40: the port calculated for an instance of a cluster differs from the
\* port calculated for every other instance of the same spec.
C40_PortsDistinct ==
    (pout.done /\ pout.port.tag = "some")
        => \A j \in 0..MaxInstance :
              j # pin.instance_index
                => \A r \in calculate_instance_port(pin, j) :
                      r.tag = "some" => r.val # pout.port.val

====
